---- MODULE Spec2Model ----
(***************************************************************************)
(* The booking core of the Portuguese Kitchen reservation system:          *)
(* TimeSlot.get_available_capacity, Booking.generate_reference_number,     *)
(* Booking.save / Booking.cancel, BookingForm and the views booking_page,  *)
(* edit_booking and cancel_booking.                                        *)
(*                                                                         *)
(* Spec      runs every view as one step (requests served one at a time).  *)
(* SpecConc  splits every view at its database accesses, so that requests  *)
(*           served by different workers interleave; the views open no     *)
(*           transaction and take no lock.                                 *)
(***************************************************************************)
EXTENDS Integers, Sequences, FiniteSets, TLC

\* ------------------------------------------------------------------ bounds
\* Days run from 0 to MaxNow; a date is a day number.
MaxNow == 1
\* Largest number of booking rows the model inserts.
MaxBookings == 2
\* Number of distinct codes random.choices is allowed to draw.
MaxRefs == 2
\* max_capacity configured on the second time slot of the fixture.
SmallCap == 13
\* Largest number of booking rows while the admin site is in use.
MaxStaffBookings == 1

\* ------------------------------------------------------- program constants
DEFAULT_CAPACITY == 40
MIN_GUESTS == 1
MAX_GUESTS == 8
REF_LENGTH == 8

\* Python's None and a value that is present.
None == << >>
Some(v) == << v >>
\* Python truthiness of an optional integer: None and 0 are falsy.
Truthy(o) == o # None /\ o[1] # 0

STATUS_CHOICES ==
    {"Pending", "Confirmed", "Seated", "Completed", "Cancelled", "No-Show"}
\* status__in=['Pending', 'Confirmed', 'Seated']
ActiveStatuses == {"Pending", "Confirmed", "Seated"}

\* string.ascii_uppercase + string.digits
Alphabet ==
    << "A", "B", "C", "D", "E", "F", "G", "H", "I", "J", "K", "L", "M",
       "N", "O", "P", "Q", "R", "S", "T", "U", "V", "W", "X", "Y", "Z",
       "0", "1", "2", "3", "4", "5", "6", "7", "8", "9" >>
\* The codes ''.join(random.choices(Alphabet, k=8)) may return here: the
\* first seven characters are fixed, the last one is one of MaxRefs.
RefPool ==
    { [k \in 1..REF_LENGTH |-> IF k < REF_LENGTH THEN Alphabet[1] ELSE Alphabet[i]] :
        i \in 1..MaxRefs }

\* Registered accounts; the requester of an unauthenticated request is
\* AnonymousUser.
Users == {"u1", "u2"}
AnonymousUser == "anonymous"
Requesters == Users \cup {AnonymousUser}
is_authenticated(user) == user \in Users
\* A Booking instance whose user was never assigned (user_id is NULL).
NoUser == "no user"

Dates == 0..MaxNow

\* The TimeSlot rows: unset capacity, a small configured capacity, a
\* configured capacity of 0 and a slot that is switched off.
TimeSlotFixture ==
    << [id |-> 1, max_capacity |-> None,           is_active |-> TRUE],
       [id |-> 2, max_capacity |-> Some(SmallCap), is_active |-> TRUE],
       [id |-> 3, max_capacity |-> Some(0),        is_active |-> TRUE],
       [id |-> 4, max_capacity |-> Some(SmallCap), is_active |-> FALSE] >>
\* The Table rows.
TableFixture ==
    << [id |-> 1, capacity |-> 4, is_available |-> TRUE],
       [id |-> 2, capacity |-> 2, is_available |-> FALSE] >>

\* -------------------------------------------------------------- the inputs
\* number_of_guests as posted: below the range, in it, above it.
GuestInputs == {0, 6, 8, 20}
\* The contact fields of the form.
ContactFields == {"guest_name", "guest_email", "guest_phone"}
\* request.POST of the booking form; missing is the set of contact fields
\* left empty.  Forms with all contact fields, and forms that lack one of
\* them and ask for a full party on one of the first two time slots.
Forms ==
    [booking_date : Dates, timeslot : 1..Len(TimeSlotFixture),
     number_of_guests : GuestInputs, missing : {{}}]
    \cup [booking_date : Dates, timeslot : {1, 2},
          number_of_guests : {MAX_GUESTS}, missing : {{c} : c \in ContactFields}]
\* The forms a requester is taken to post: the contact fields are read only
\* when the requester is not authenticated.
FormsOf(user) ==
    IF is_authenticated(user) THEN {f \in Forms : f.missing = {}} ELSE Forms

VARIABLES
    now,        \* the current day: date.today() and timezone.now()
    timeslots,  \* TimeSlot table: id -> row
    tables,     \* Table table: id -> row
    bookings,   \* Booking table: sequence of rows, the primary key is the index
    served,     \* the request a view has just served, with the table as it was
                \* before and the response, until the response is sent (Spec)
    proc        \* the request each worker is serving (SpecConc)

vars == << now, timeslots, tables, bookings, served, proc >>

\* ------------------------------------------------------------ the database
RECURSIVE SumGuests(_, _)
\* aggregate(Sum('number_of_guests')) over the rows with primary key in ids
SumGuests(bks, ids) ==
    IF ids = {} THEN 0
    ELSE LET i == CHOOSE x \in ids : TRUE
         IN  bks[i].number_of_guests + SumGuests(bks, ids \ {i})

\* ActiveIds without the status__in filter: Cancelled bookings count too.
ActiveIds_AnyStatus(bks, slot, d) ==
    { i \in DOMAIN bks :
        /\ bks[i].timeslot = slot
        /\ bks[i].booking_date = d }

\* Booking.objects.filter(timeslot=, booking_date=, status__in=[...])
ActiveIds(bks, slot, d) ==
    { i \in DOMAIN bks :
        /\ bks[i].timeslot = slot
        /\ bks[i].booking_date = d
        /\ bks[i].status \in ActiveStatuses }

\* TimeSlot.get_available_capacity
get_available_capacity(slots, bks, slot, d) ==
    LET booked_guests == SumGuests(bks, ActiveIds(bks, slot, d))
        max_cap == IF Truthy(slots[slot].max_capacity)
                   THEN slots[slot].max_capacity[1]
                   ELSE DEFAULT_CAPACITY
    IN  max_cap - booked_guests

\* Booking.objects.filter(reference_number=ref).exists()
RefExists(bks, ref) == \E i \in DOMAIN bks : bks[i].reference_number = ref

\* generate_reference_number without the exists() query: the first code
\* drawn is returned.
generate_reference_number_NoExistsCheck(bks, ref) ==
    ref \in RefPool

\* Booking.generate_reference_number: the loop returns the first drawn code
\* that no row carries; ref is a code it can return.
generate_reference_number(bks, ref) ==
    /\ ref \in RefPool
    /\ ~RefExists(bks, ref)

\* IntegrityError without unique=True on reference_number.
IntegrityError_NoUniqueReference(bks, id, row) ==
    \/ row.user = NoUser
    \/ \E i \in DOMAIN bks :
          /\ i # id
          /\ bks[i].user = row.user
          /\ bks[i].booking_date = row.booking_date
          /\ bks[i].timeslot = row.timeslot

\* IntegrityError without unique_together on (user, booking_date, timeslot).
IntegrityError_NoUniqueTogether(bks, id, row) ==
    \/ row.user = NoUser
    \/ \E i \in DOMAIN bks :
          /\ i # id
          /\ bks[i].reference_number = row.reference_number

\* IntegrityError with (user, booking_date, timeslot) unique among the rows
\* that are not Cancelled only.
IntegrityError_TripleOfLiveRows(bks, id, row) ==
    \/ row.user = NoUser
    \/ \E i \in DOMAIN bks :
          /\ i # id
          /\ bks[i].reference_number = row.reference_number
    \/ \E i \in DOMAIN bks :
          /\ i # id
          /\ bks[i].status # "Cancelled"
          /\ bks[i].user = row.user
          /\ bks[i].booking_date = row.booking_date
          /\ bks[i].timeslot = row.timeslot

\* The constraints of the Booking table, for a row written under primary key
\* id: user is NOT NULL, reference_number is unique, and (user, booking_date,
\* timeslot) is unique together.
IntegrityError(bks, id, row) ==
    \/ row.user = NoUser
    \/ \E i \in DOMAIN bks :
          /\ i # id
          /\ bks[i].reference_number = row.reference_number
    \/ \E i \in DOMAIN bks :
          /\ i # id
          /\ bks[i].user = row.user
          /\ bks[i].booking_date = row.booking_date
          /\ bks[i].timeslot = row.timeslot

\* Booking.save -> Model.save: INSERT when the instance has no primary key,
\* UPDATE of every column otherwise.  An IntegrityError leaves the table as
\* it was.
SaveRow(bks, id, row) ==
    IF id = 0 THEN Append(bks, row) ELSE [bks EXCEPT ![id] = row]

\* ---------------------------------------------------------------- the form
\* TimeSlot.objects.filter(is_active=True), the queryset of the timeslot
\* field: id is the primary key of one of its rows.
ActiveTimeSlot(slots, id) == id \in DOMAIN slots /\ slots[id].is_active

\* FieldErrors without clean_booking_date.
FieldErrors_NoDateCheck(slots, today, user, form) ==
    {f \in {"number_of_guests"} :
            \/ form.number_of_guests < MIN_GUESTS
            \/ form.number_of_guests > MAX_GUESTS}
    \cup {f \in {"timeslot"} : ~ActiveTimeSlot(slots, form.timeslot)}
    \cup (IF is_authenticated(user) THEN {} ELSE form.missing)

\* BookingForm._clean_fields: the names of the fields that fail.
FieldErrors(slots, today, user, form) ==
    {f \in {"booking_date"} : form.booking_date < today}
    \cup {f \in {"number_of_guests"} :
            \/ form.number_of_guests < MIN_GUESTS
            \/ form.number_of_guests > MAX_GUESTS}
    \cup {f \in {"timeslot"} : ~ActiveTimeSlot(slots, form.timeslot)}
    \cup (IF is_authenticated(user) THEN {} ELSE form.missing)

\* BookingForm.clean: the non-field error it raises, if any.  The capacity
\* check runs when the three booking fields are clean; the guest check runs
\* only if the capacity check did not raise.
CleanError(slots, bks, today, user, form) ==
    LET fe == FieldErrors(slots, today, user, form)
        checked == {"booking_date", "timeslot", "number_of_guests"} \cap fe = {}
        available_capacity ==
            get_available_capacity(slots, bks, form.timeslot, form.booking_date)
    IN  IF checked /\ available_capacity < form.number_of_guests
        THEN [error |-> "capacity", available |-> Some(available_capacity)]
        ELSE IF ~is_authenticated(user) /\ form.missing # {}
        THEN [error |-> "guest_info", available |-> None]
        ELSE [error |-> "none", available |-> None]

\* BookingForm.is_valid: the errors of the form and the capacity the
\* capacity error reports.
FormErrors(slots, bks, today, user, form) ==
    LET ce == CleanError(slots, bks, today, user, form)
    IN  [errors |-> FieldErrors(slots, today, user, form)
                    \cup (IF ce.error = "none" THEN {} ELSE {ce.error}),
         available |-> ce.available]

\* BookingForm.save(commit=False) on a new instance, then the assignments of
\* booking_page: the row to insert.
NewBooking(user, form, ref) ==
    [user |-> IF is_authenticated(user) THEN user ELSE NoUser,
     table |-> None,
     timeslot |-> form.timeslot,
     booking_date |-> form.booking_date,
     number_of_guests |-> form.number_of_guests,
     status |-> "Pending",
     reference_number |-> ref,
     cancelled_at |-> None]

\* ---------------------------------------------------------------- responses
Response(op, status, errors, available) ==
    [op |-> op, status |-> status, errors |-> errors, available |-> available]

NoResponse == Response("none", "none", {}, None)

\* What a view was asked: op is create, edit or cancel; reference names the
\* booking of an edit or a cancel; form is the POST data of a create or edit.
Request(op, user, reference, form) ==
    [op |-> op, user |-> user, reference |-> reference, form |-> form]
NoForm == [booking_date |-> 0, timeslot |-> 1, number_of_guests |-> 0, missing |-> {}]
NoRequest == Request("none", AnonymousUser, << >>, NoForm)
Served(request, before, resp) ==
    [request |-> request, before |-> before, response |-> resp]
NotServed == Served(NoRequest, << >>, NoResponse)

\* booking_page, POST: the table and the response it leaves, given that
\* generate_reference_number returns ref.
booking_page(slots, bks, today, user, form, ref) ==
    LET fe == FormErrors(slots, bks, today, user, form)
        row == NewBooking(user, form, ref)
    IN  IF fe.errors # {}
        THEN [bookings |-> bks,
              response |-> Response("create", "invalid", fe.errors, fe.available)]
        ELSE IF IntegrityError(bks, 0, row)
        THEN [bookings |-> bks,
              response |-> Response("create", "integrity_error", {}, None)]
        ELSE [bookings |-> SaveRow(bks, 0, row),
              response |-> Response("create", "ok", {}, None)]

\* get_object_or_404(Booking, reference_number=reference): the primary key
\* of the row, 0 when there is none.
FindByReference(bks, reference) ==
    IF RefExists(bks, reference)
    THEN CHOOSE i \in DOMAIN bks : bks[i].reference_number = reference
    ELSE 0

\* Gate without the check of the owner.
Gate_NoOwnerCheck(today, user, booking, refusal) ==
    IF booking.booking_date < today THEN "past"
    ELSE IF booking.status = "Cancelled" THEN refusal
    ELSE "go"

\* Gate without the check of the date.
Gate_NoPastCheck(today, user, booking, refusal) ==
    IF booking.user # user THEN "not_owner"
    ELSE IF booking.status = "Cancelled" THEN refusal
    ELSE "go"

\* Gate without the check of the status.
Gate_NoCancelledCheck(today, user, booking, refusal) ==
    IF booking.user # user THEN "not_owner"
    ELSE IF booking.booking_date < today THEN "past"
    ELSE "go"

\* The checks edit_booking and cancel_booking make on the instance they
\* loaded, in the order of the code: "go" when all pass.
Gate(today, user, booking, refusal) ==
    IF booking.user # user THEN "not_owner"
    ELSE IF booking.booking_date < today THEN "past"
    ELSE IF booking.status = "Cancelled" THEN refusal
    ELSE "go"

\* construct_instance with reference_number among the Meta.fields: the form
\* posts none, so the instance loses its reference.
construct_instance_ClearsReference(booking, form) ==
    [booking EXCEPT !.booking_date = form.booking_date,
                    !.timeslot = form.timeslot,
                    !.number_of_guests = form.number_of_guests,
                    !.reference_number = << >>]

\* construct_instance with status and table among the Meta.fields: the form
\* posts neither, so the instance falls back to Pending with no table.
construct_instance_ResetsAssignment(booking, form) ==
    [booking EXCEPT !.booking_date = form.booking_date,
                    !.timeslot = form.timeslot,
                    !.number_of_guests = form.number_of_guests,
                    !.status = "Pending",
                    !.table = << >>]

\* construct_instance in BookingForm._post_clean: the Meta.fields of the
\* form are written into the instance the form was given.
construct_instance(booking, form) ==
    [booking EXCEPT !.booking_date = form.booking_date,
                    !.timeslot = form.timeslot,
                    !.number_of_guests = form.number_of_guests]

RECURSIVE SumCapacity(_, _)
SumCapacity(tbls, ids) ==
    IF ids = {} THEN 0
    ELSE LET i == CHOOSE x \in ids : TRUE
         IN  tbls[i].capacity + SumCapacity(tbls, ids \ {i})

\* Table.objects.filter(is_available=True).aggregate(Sum('capacity')) or 40
total_capacity(tbls) ==
    LET s == SumCapacity(tbls, {i \in DOMAIN tbls : tbls[i].is_available})
    IN  IF {i \in DOMAIN tbls : tbls[i].is_available} = {} \/ s = 0
        THEN DEFAULT_CAPACITY ELSE s

\* The "AC8" block of edit_booking.  form.save(commit=False) returns the
\* instance the form was built on, so updated_booking and booking are one
\* object: `booking` is the instance after construct_instance.
Revalidation(tbls, bks, id, booking, updated_booking) ==
    IF updated_booking.number_of_guests # booking.number_of_guests
    THEN LET other_guests ==
                 SumGuests(bks, ActiveIds(bks, updated_booking.timeslot,
                                          updated_booking.booking_date) \ {id})
             available_capacity == total_capacity(tbls) - other_guests
         IN  IF available_capacity < updated_booking.number_of_guests
             THEN [error |-> "capacity", available |-> Some(available_capacity)]
             ELSE [error |-> "none", available |-> None]
    ELSE [error |-> "none", available |-> None]

\* edit_booking after the instance (primary key id, row booking) passed the
\* gate: the form is validated against bks_check, the row is written to bks.
edit_write(slots, tbls, bks_check, bks, today, user, id, loaded, form) ==
    LET fe == FormErrors(slots, bks_check, today, user, form)
        updated_booking == construct_instance(loaded, form)
        booking == updated_booking
        rv == Revalidation(tbls, bks_check, id, booking, updated_booking)
        row == [updated_booking EXCEPT !.user = user,
                    !.reference_number = booking.reference_number]
    IN  IF fe.errors # {}
        THEN [bookings |-> bks,
              response |-> Response("edit", "invalid", fe.errors, fe.available)]
        ELSE IF rv.error # "none"
        THEN [bookings |-> bks,
              response |-> Response("edit", "invalid", {rv.error}, rv.available)]
        ELSE IF IntegrityError(bks, id, row)
        THEN [bookings |-> bks,
              response |-> Response("edit", "integrity_error", {}, None)]
        ELSE [bookings |-> SaveRow(bks, id, row),
              response |-> Response("edit", "ok", {}, None)]

\* edit_booking without the checks of the owner, the date and the status.
edit_booking_NoGate(slots, tbls, bks, today, user, reference, form) ==
    LET id == FindByReference(bks, reference)
    IN  IF ~is_authenticated(user)
        THEN [bookings |-> bks,
              response |-> Response("edit", "login_required", {}, None)]
        ELSE IF id = 0
        THEN [bookings |-> bks,
              response |-> Response("edit", "not_found", {}, None)]
        ELSE edit_write(slots, tbls, bks, bks, today, user, id, bks[id], form)

\* edit_booking, POST.
edit_booking(slots, tbls, bks, today, user, reference, form) ==
    LET id == FindByReference(bks, reference)
    IN  IF ~is_authenticated(user)
        THEN [bookings |-> bks,
              response |-> Response("edit", "login_required", {}, None)]
        ELSE IF id = 0
        THEN [bookings |-> bks,
              response |-> Response("edit", "not_found", {}, None)]
        ELSE IF Gate(today, user, bks[id], "cancelled") # "go"
        THEN [bookings |-> bks,
              response |-> Response("edit", Gate(today, user, bks[id], "cancelled"),
                                    {}, None)]
        ELSE edit_write(slots, tbls, bks, bks, today, user, id, bks[id], form)

\* Booking.cancel without the assignment of cancelled_at.
cancel_NoStamp(booking, time) ==
    [booking EXCEPT !.status = "Cancelled"]

\* Booking.cancel on a loaded instance: the row it saves.
cancel(booking, time) ==
    [booking EXCEPT !.status = "Cancelled", !.cancelled_at = Some(time)]

\* cancel_booking, POST.
cancel_booking(bks, today, user, reference) ==
    LET id == FindByReference(bks, reference)
    IN  IF ~is_authenticated(user)
        THEN [bookings |-> bks,
              response |-> Response("cancel", "login_required", {}, None)]
        ELSE IF id = 0
        THEN [bookings |-> bks,
              response |-> Response("cancel", "not_found", {}, None)]
        ELSE IF Gate(today, user, bks[id], "already_cancelled") # "go"
        THEN [bookings |-> bks,
              response |-> Response("cancel",
                                    Gate(today, user, bks[id], "already_cancelled"),
                                    {}, None)]
        ELSE [bookings |-> SaveRow(bks, id, cancel(bks[id], today)),
              response |-> Response("cancel", "ok", {}, None)]

\* ------------------------------------------------------------ the workers
\* The server processes that serve requests side by side.
Procs == {"w1", "w2"}

\* The forms posted while requests run side by side: a booking for today on
\* one of the first two time slots.
ConcForms ==
    {f \in Forms : f.booking_date = 0 /\ f.timeslot \in {1, 2} /\ f.missing = {}
                   /\ f.number_of_guests = MAX_GUESTS}

NoBooking == NewBooking(AnonymousUser, NoForm, << >>)

\* A worker between two requests.
Idle ==
    [pc |-> "idle", op |-> "none", user |-> AnonymousUser, form |-> NoForm,
     id |-> 0, booking |-> NoBooking, ref |-> << >>, stale |-> "none",
     response |-> NoResponse]


\* Worker w takes a request.
Started(w, rec) == [proc EXCEPT ![w] = rec]

\* The (timeslot, booking_date) pair whose capacity worker q has checked and
\* not yet written to.
HoldsCheck(q, slot, d) ==
    /\ proc[q].pc \in {"generate", "save", "esave"}
    /\ proc[q].form.timeslot = slot
    /\ proc[q].form.booking_date = d

\* Worker w has written row (an active booking) by operation op: every other
\* worker that holds a capacity check of the row's pair now holds a stale one.
Written(w, op, row, rec) ==
    [q \in Procs |->
        IF q = w THEN rec
        ELSE IF /\ HoldsCheck(q, row.timeslot, row.booking_date)
                /\ row.status \in ActiveStatuses
                /\ proc[q].stale = "none"
        THEN [proc[q] EXCEPT !.stale = op]
        ELSE proc[q]]

\* The view returns resp: what stays of the request is what it asked for and
\* the row it touched.
Finished(rec, resp) ==
    [rec EXCEPT !.pc = "done", !.response = resp, !.user = AnonymousUser,
                !.booking = NoBooking]

TypeOK ==
    /\ now \in Dates
    /\ Len(bookings) <= MaxBookings

Init ==
    /\ now = 0
    /\ timeslots = TimeSlotFixture
    /\ tables = TableFixture
    /\ bookings = << >>
    /\ served = NotServed
    /\ proc = [p \in Procs |-> Idle]

\* The codes generate_reference_number can return to booking_page; it is not
\* called when the form is invalid.
RefChoices(slots, bks, today, user, form) ==
    IF FormErrors(slots, bks, today, user, form).errors # {}
    THEN {CHOOSE r \in RefPool : TRUE}
    ELSE {r \in RefPool : generate_reference_number(bks, r)}

\* A POST to booking_page, served in one step.
Create ==
    /\ served = NotServed
    /\ \E user \in Requesters :
      \E form \in FormsOf(user) :
        \E ref \in RefChoices(timeslots, bookings, now, user, form) :
            /\ \E r \in {booking_page(timeslots, bookings, now, user, form, ref)} :
                   /\ Len(r.bookings) <= MaxBookings
                   /\ bookings' = r.bookings
                   /\ served' = Served(Request("create", user, << >>, form),
                                       bookings, r.response)
            /\ UNCHANGED << now, timeslots, tables, proc >>

\* The forms to post to edit_booking: the view reads request.POST only when
\* the loaded booking passed its checks.
FormChoices(bks, today, user, reference) ==
    LET id == FindByReference(bks, reference)
    IN  IF is_authenticated(user) /\ id # 0
           /\ Gate(today, user, bks[IF id = 0 THEN 1 ELSE id], "cancelled") = "go"
        THEN FormsOf(user)
        ELSE {CHOOSE f \in FormsOf(user) : TRUE}

\* A POST to edit_booking, served in one step.
Edit ==
    /\ served = NotServed
    /\ \E user \in Requesters, reference \in RefPool :
      \E form \in FormChoices(bookings, now, user, reference) :
        /\ \E r \in {edit_booking(timeslots, tables, bookings, now, user,
                                 reference, form)} :
               /\ bookings' = r.bookings
               /\ served' = Served(Request("edit", user, reference, form),
                                   bookings, r.response)
        /\ UNCHANGED << now, timeslots, tables, proc >>

\* A POST to cancel_booking, served in one step.
Cancel ==
    /\ served = NotServed
    /\ \E user \in Requesters, reference \in RefPool :
        /\ \E r \in {cancel_booking(bookings, now, user, reference)} :
               /\ bookings' = r.bookings
               /\ served' = Served(Request("cancel", user, reference, NoForm),
                                   bookings, r.response)
        /\ UNCHANGED << now, timeslots, tables, proc >>

\* The response goes out to the client; the next request can be served.
Respond ==
    /\ served # NotServed
    /\ served' = NotServed
    /\ UNCHANGED << now, timeslots, tables, bookings, proc >>

\* Midnight.
NextDay ==
    /\ served = NotServed
    /\ now < MaxNow
    /\ now' = now + 1
    /\ UNCHANGED << timeslots, tables, bookings, served, proc >>

Next ==
    \/ Create
    \/ Edit
    \/ Cancel
    \/ Respond
    \/ NextDay

Spec == Init /\ [][Next]_vars

\* ------------------------------------------------ the views, step by step
\* booking_page, first database access: form.is_valid() runs the capacity
\* query of BookingForm.clean.
CreateValidate(w) ==
    /\ proc[w].pc = "idle"
    /\ \E user \in Users, form \in ConcForms :
         LET fe == FormErrors(timeslots, bookings, now, user, form)
             rec == [Idle EXCEPT !.op = "create", !.user = user, !.form = form]
         IN  proc' = Started(w,
                 IF fe.errors # {}
                 THEN Finished(rec, Response("create", "invalid", fe.errors,
                                             fe.available))
                 ELSE [rec EXCEPT !.pc = "generate"])
    /\ UNCHANGED << now, timeslots, tables, bookings, served >>

\* booking_page, second database access: the exists() query of
\* generate_reference_number, for the code the loop returns.
CreateGenerate(w) ==
    /\ proc[w].pc = "generate"
    /\ \E ref \in RefPool :
         /\ generate_reference_number(bookings, ref)
         /\ proc' = [proc EXCEPT ![w].pc = "save", ![w].ref = ref]
    /\ UNCHANGED << now, timeslots, tables, bookings, served >>

\* booking_page, third database access: booking.save() inserts the row.
CreateSave(w) ==
    /\ proc[w].pc = "save"
    /\ Len(bookings) < MaxBookings
    /\ LET row == NewBooking(proc[w].user, proc[w].form, proc[w].ref)
       IN  IF IntegrityError(bookings, 0, row)
           THEN /\ bookings' = bookings
                /\ proc' = [proc EXCEPT ![w] =
                       Finished(@, Response("create", "integrity_error", {}, None))]
           ELSE /\ bookings' = SaveRow(bookings, 0, row)
                /\ proc' = Written(w, "create", row,
                       Finished(proc[w], Response("create", "ok", {}, None)))
    /\ UNCHANGED << now, timeslots, tables, served >>

\* edit_booking, first database access: get_object_or_404, then the checks
\* on the loaded instance.
EditLoad(w) ==
    /\ proc[w].pc = "idle"
    /\ \E user \in Users, reference \in RefPool, form \in ConcForms :
         LET id == FindByReference(bookings, reference)
             rec == [Idle EXCEPT !.op = "edit", !.user = user, !.form = form,
                                 !.id = id]
         IN  /\ id # 0
             /\ proc' = Started(w,
                    IF Gate(now, user, bookings[id], "cancelled") # "go"
                    THEN Finished(rec, Response("edit",
                             Gate(now, user, bookings[id], "cancelled"), {}, None))
                    ELSE [rec EXCEPT !.pc = "validate", !.booking = bookings[id]])
    /\ UNCHANGED << now, timeslots, tables, bookings, served >>

\* edit_booking, second database access: form.is_valid() and the "AC8"
\* block, on the table as it is now.
EditValidate(w) ==
    /\ proc[w].pc = "validate"
    /\ LET r == edit_write(timeslots, tables, bookings, bookings, now,
                           proc[w].user, proc[w].id, proc[w].booking, proc[w].form)
       IN  proc' = [proc EXCEPT ![w] =
               IF r.response.status = "invalid"
               THEN Finished(@, r.response)
               ELSE [@ EXCEPT !.pc = "esave"]]
    /\ UNCHANGED << now, timeslots, tables, bookings, served >>

\* edit_booking, third database access: updated_booking.save() writes every
\* column of the loaded instance.
EditSave(w) ==
    /\ proc[w].pc = "esave"
    /\ LET row == construct_instance(proc[w].booking, proc[w].form)
       IN  IF IntegrityError(bookings, proc[w].id, row)
           THEN /\ bookings' = bookings
                /\ proc' = [proc EXCEPT ![w] =
                       Finished(@, Response("edit", "integrity_error", {}, None))]
           ELSE /\ bookings' = SaveRow(bookings, proc[w].id, row)
                /\ proc' = Written(w, "edit", row,
                       Finished(proc[w], Response("edit", "ok", {}, None)))
    /\ UNCHANGED << now, timeslots, tables, served >>

\* cancel_booking, first database access: get_object_or_404, then the
\* checks on the loaded instance.
CancelLoad(w) ==
    /\ proc[w].pc = "idle"
    /\ \E user \in Users, reference \in RefPool :
         LET id == FindByReference(bookings, reference)
             rec == [Idle EXCEPT !.op = "cancel", !.user = user, !.id = id]
         IN  /\ id # 0
             /\ proc' = Started(w,
                    IF Gate(now, user, bookings[id], "already_cancelled") # "go"
                    THEN Finished(rec, Response("cancel",
                             Gate(now, user, bookings[id], "already_cancelled"),
                             {}, None))
                    ELSE [rec EXCEPT !.pc = "ksave", !.booking = bookings[id]])
    /\ UNCHANGED << now, timeslots, tables, bookings, served >>

\* cancel_booking, second database access: booking.cancel() saves every
\* column of the loaded instance.
CancelSave(w) ==
    /\ proc[w].pc = "ksave"
    /\ LET row == cancel(proc[w].booking, now)
       IN  /\ bookings' = SaveRow(bookings, proc[w].id, row)
           /\ proc' = Written(w, "cancel", row,
                  Finished(proc[w], Response("cancel", "ok", {}, None)))
    /\ UNCHANGED << now, timeslots, tables, served >>

\* The worker's response goes out; the worker is free again.
Return(w) ==
    /\ proc[w].pc = "done"
    /\ proc' = [proc EXCEPT ![w] = Idle]
    /\ UNCHANGED << now, timeslots, tables, bookings, served >>

NextConc ==
    \E w \in Procs :
        \/ CreateValidate(w)
        \/ CreateGenerate(w)
        \/ CreateSave(w)
        \/ EditLoad(w)
        \/ EditValidate(w)
        \/ EditSave(w)
        \/ CancelLoad(w)
        \/ CancelSave(w)
        \/ Return(w)

SpecConc == Init /\ [][NextConc]_vars
\* Requests to booking_page only, served side by side.
NextCreates ==
    \E w \in Procs :
        \/ CreateValidate(w)
        \/ CreateGenerate(w)
        \/ CreateSave(w)
        \/ Return(w)

SpecCreates == Init /\ [][NextCreates]_vars

\* ---------------------------------------------------------- the admin site
\* The accounts with is_staff set, which the admin site lets in; a staff
\* member is a registered user and can make bookings of their own.
Staff == {"u2"}

\* The choices of the table column of the change list: no table, or one of
\* the Table rows.
TableChoices(tbls) == {None} \cup {Some(i) : i \in DOMAIN tbls}

\* The change list of BookingAdmin, saved for the row with primary key id:
\* list_editable makes status and table editable, the other columns of the
\* row (cancelled_at among them) are written back as they were loaded.
changelist_view(bks, id, status, table) ==
    LET row == [bks[id] EXCEPT !.status = status, !.table = table]
    IN  IF IntegrityError(bks, id, row)
        THEN [bookings |-> bks,
              response |-> Response("admin", "integrity_error", {}, None)]
        ELSE [bookings |-> SaveRow(bks, id, row),
              response |-> Response("admin", "ok", {}, None)]

\* A staff member saves the change list of BookingAdmin.
AdminChange ==
    /\ served = NotServed
    /\ \E user \in Staff, id \in DOMAIN bookings :
         \E status \in STATUS_CHOICES, table \in TableChoices(tables) :
           \E r \in {changelist_view(bookings, id, status, table)} :
               /\ bookings' = r.bookings
               /\ served' = Served(Request("admin", user,
                                           bookings[id].reference_number, NoForm),
                                   bookings, r.response)
    /\ UNCHANGED << now, timeslots, tables, proc >>

\* The rows of a table other than the one with primary key id.
Without(rows, id) == [i \in DOMAIN rows \ {id} |-> rows[i]]

\* Deleting a Table with on_delete=CASCADE on Booking.table: the bookings
\* that reference it are deleted with it.
delete_table_Cascade(tbls, bks, id) ==
    [tables |-> Without(tbls, id),
     bookings |-> SelectSeq(bks, LAMBDA b : b.table # Some(id)),
     response |-> Response("delete_table", "ok", {}, None)]

\* Deleting the Table with primary key id from the admin site: Booking.table
\* is on_delete=SET_NULL, so the table column of the bookings that reference
\* it is set to NULL and the Table row is deleted.
delete_table(tbls, bks, id) ==
    [tables |-> Without(tbls, id),
     bookings |-> [i \in DOMAIN bks |->
                     IF bks[i].table = Some(id)
                     THEN [bks[i] EXCEPT !.table = None] ELSE bks[i]],
     response |-> Response("delete_table", "ok", {}, None)]

\* Deleting a TimeSlot without on_delete=PROTECT on Booking.timeslot.
delete_timeslot_NoProtect(slots, bks, id) ==
    [timeslots |-> Without(slots, id),
     response |-> Response("delete_timeslot", "ok", {}, None)]

\* Deleting the TimeSlot with primary key id from the admin site:
\* Booking.timeslot is on_delete=PROTECT, so the delete is refused while a
\* booking references the row.
delete_timeslot(slots, bks, id) ==
    IF \E i \in DOMAIN bks : bks[i].timeslot = id
    THEN [timeslots |-> slots,
          response |-> Response("delete_timeslot", "protected", {}, None)]
    ELSE [timeslots |-> Without(slots, id),
          response |-> Response("delete_timeslot", "ok", {}, None)]

\* A staff member deletes a Table in the admin site.
DeleteTable ==
    /\ served = NotServed
    /\ \E user \in Staff, id \in DOMAIN tables :
         \E r \in {delete_table(tables, bookings, id)} :
             /\ tables' = r.tables
             /\ bookings' = r.bookings
             /\ served' = Served(Request("delete_table", user, << >>, NoForm),
                                 bookings, r.response)
    /\ UNCHANGED << now, timeslots, proc >>

\* A staff member deletes a TimeSlot in the admin site; the request names
\* the row in the timeslot field.
DeleteTimeSlot ==
    /\ served = NotServed
    /\ \E user \in Staff, id \in DOMAIN timeslots :
         \E r \in {delete_timeslot(timeslots, bookings, id)} :
             /\ timeslots' = r.timeslots
             /\ served' = Served(Request("delete_timeslot", user, << >>,
                                         [NoForm EXCEPT !.timeslot = id]),
                                 bookings, r.response)
    /\ UNCHANGED << now, tables, bookings, proc >>

\* The requests served one at a time while staff work in the admin site, as
\* long as the Booking table holds at most MaxStaffBookings rows.
StaffScope == Len(bookings) <= MaxStaffBookings

NextStaff ==
    \/ Create /\ StaffScope'
    \/ Edit
    \/ Cancel
    \/ AdminChange
    \/ Respond
    \/ NextDay

SpecStaff == Init /\ [][NextStaff]_vars

\* Bookings are made and staff assign tables, change statuses and delete
\* Table and TimeSlot rows in the admin site.
NextDelete ==
    \/ Create /\ StaffScope'
    \/ AdminChange
    \/ DeleteTable
    \/ DeleteTimeSlot
    \/ Respond

SpecDelete == Init /\ [][NextDelete]_vars

\* ------------------------------------------------------------- the queries
\* number_of_guests and guests as the availability queries receive them:
\* none, one, what a small slot has left, a full party, more than any slot.
QueryGuests == {0, 1, 7, 8, 41}

\* timeslot_id as check_availability receives it: the primary key of a
\* TimeSlot row, or of no row.
QuerySlots == DOMAIN TimeSlotFixture \cup {Len(TimeSlotFixture) + 1}

\* check_availability, GET, with all three parameters given.
check_availability(slots, bks, today, booking_date, timeslot_id, number_of_guests) ==
    IF number_of_guests = 0
    THEN Response("availability", "bad_request", {"parameters"}, None)
    ELSE IF booking_date < today
    THEN Response("availability", "unavailable", {"booking_date"}, None)
    ELSE IF ~ActiveTimeSlot(slots, timeslot_id)
    THEN Response("availability", "unavailable", {"timeslot"}, None)
    ELSE LET available_capacity ==
                 get_available_capacity(slots, bks, timeslot_id, booking_date)
         IN  IF available_capacity >= number_of_guests
             THEN Response("availability", "available", {}, Some(available_capacity))
             ELSE Response("availability", "unavailable", {}, Some(available_capacity))

\* get_timeslots, GET: available_capacity and is_available of every active
\* time slot.
get_timeslots(slots, bks, booking_date) ==
    Response("timeslots", "ok", {},
             [s \in {t \in DOMAIN slots : slots[t].is_active} |->
                 LET available_capacity ==
                         get_available_capacity(slots, bks, s, booking_date)
                 IN  [available_capacity |-> available_capacity,
                      is_available |-> available_capacity > 0]])

\* get_available_timeslots, GET: available_capacity of the active time
\* slots that have room for guests.  total_capacity is max_capacity as it
\* is stored: for a slot with none, `None - booked_guests` raises TypeError
\* and the view answers with status 500 and no time slots.
get_available_timeslots(slots, bks, today, booking_date, guests) ==
    LET all_timeslots == {t \in DOMAIN slots : slots[t].is_active}
        available_capacity(t) ==
            slots[t].max_capacity[1] - SumGuests(bks, ActiveIds(bks, t, booking_date))
    IN  IF booking_date < today
        THEN Response("available_timeslots", "error", {"booking_date"}, << >>)
        ELSE IF \E t \in all_timeslots : slots[t].max_capacity = None
        THEN Response("available_timeslots", "server_error", {"TypeError"}, << >>)
        ELSE Response("available_timeslots", "ok", {},
                      [s \in {t \in all_timeslots : available_capacity(t) >= guests} |->
                          available_capacity(s)])

\* A GET to check_availability; the query views do not look at the
\* requester.
CheckAvailability ==
    /\ served = NotServed
    /\ \E d \in Dates, slot \in QuerySlots, n \in QueryGuests :
         served' = Served(Request("availability", AnonymousUser, << >>,
                                  [booking_date |-> d, timeslot |-> slot,
                                   number_of_guests |-> n, missing |-> {}]),
                          bookings,
                          check_availability(timeslots, bookings, now, d, slot, n))
    /\ UNCHANGED << now, timeslots, tables, bookings, proc >>

\* A GET to get_timeslots.
GetTimeslots ==
    /\ served = NotServed
    /\ \E d \in Dates :
         served' = Served(Request("timeslots", AnonymousUser, << >>,
                                  [NoForm EXCEPT !.booking_date = d]),
                          bookings, get_timeslots(timeslots, bookings, d))
    /\ UNCHANGED << now, timeslots, tables, bookings, proc >>

\* A GET to get_available_timeslots.
GetAvailableTimeslots ==
    /\ served = NotServed
    /\ \E d \in Dates, n \in QueryGuests \ {0} :
         served' = Served(Request("available_timeslots", AnonymousUser, << >>,
                                  [NoForm EXCEPT !.booking_date = d,
                                                 !.number_of_guests = n]),
                          bookings,
                          get_available_timeslots(timeslots, bookings, now, d, n))
    /\ UNCHANGED << now, timeslots, tables, bookings, proc >>

\* Bookings are made and cancelled while the availability is queried.
NextQueries ==
    \/ Create
    \/ Cancel
    \/ CheckAvailability
    \/ GetTimeslots
    \/ GetAvailableTimeslots
    \/ Respond
    \/ NextDay

SpecQueries == Init /\ [][NextQueries]_vars

\* ------------------------------------------------------- the notifications
\* The registered users whose account has an email address.
HasEmail == {"u1"}

\* What becomes of an email once the function is called: it is delivered,
\* render_to_string finds no HTML template, or email.send() raises.
MailOutcomes == {"delivered", "template_missing", "smtp_error"}

\* send_booking_confirmation_email without the try/except around its body.
send_booking_confirmation_email_Raises(booking, outcome) ==
    IF booking.user \notin HasEmail
    THEN [returns |-> FALSE, raised |-> FALSE, sends |-> 0]
    ELSE IF outcome = "template_missing"
    THEN [returns |-> FALSE, raised |-> TRUE, sends |-> 0]
    ELSE IF outcome = "smtp_error"
    THEN [returns |-> FALSE, raised |-> TRUE, sends |-> 1]
    ELSE [returns |-> TRUE, raised |-> FALSE, sends |-> 1]

\* send_booking_confirmation_email: what it returns, whether an exception
\* leaves it, and how many times it calls email.send().
send_booking_confirmation_email(booking, outcome) ==
    IF booking.user \notin HasEmail
    THEN [returns |-> FALSE, raised |-> FALSE, sends |-> 0]
    ELSE IF outcome = "template_missing"
    THEN [returns |-> FALSE, raised |-> FALSE, sends |-> 0]
    ELSE IF outcome = "smtp_error"
    THEN [returns |-> FALSE, raised |-> FALSE, sends |-> 1]
    ELSE [returns |-> TRUE, raised |-> FALSE, sends |-> 1]

\* send_booking_update_email: a missing template of the change type falls
\* back to the confirmation template, whose absence is caught by the outer
\* try/except.
send_booking_update_email(booking, change_type, outcome) ==
    IF booking.user \notin HasEmail
    THEN [returns |-> FALSE, raised |-> FALSE, sends |-> 0]
    ELSE IF outcome = "template_missing"
    THEN [returns |-> FALSE, raised |-> FALSE, sends |-> 0]
    ELSE IF outcome = "smtp_error"
    THEN [returns |-> FALSE, raised |-> FALSE, sends |-> 1]
    ELSE [returns |-> TRUE, raised |-> FALSE, sends |-> 1]

\* The response that stands for the result r of a send function.
Notified(r) ==
    Response("notify",
             IF r.raised THEN "exception" ELSE IF r.returns THEN "sent" ELSE "failed",
             {}, None)

\* One of the send functions is called for a stored booking.  No view
\* calls them: the call comes from outside the requests.
Notify ==
    /\ served = NotServed
    /\ \E id \in DOMAIN bookings, outcome \in MailOutcomes :
         \E r \in {send_booking_confirmation_email(bookings[id], outcome),
                   send_booking_update_email(bookings[id], "updated", outcome),
                   send_booking_update_email(bookings[id], "cancelled", outcome)} :
             served' = Served(Request("notify", bookings[id].user,
                                      bookings[id].reference_number, NoForm),
                              bookings, Notified(r))
    /\ UNCHANGED << now, timeslots, tables, bookings, proc >>

NextNotify ==
    \/ Create
    \/ Cancel
    \/ Notify
    \/ Respond

SpecNotify == Init /\ [][NextNotify]_vars

\* ------------------------------------------------------ the read-only views
\* What a view that renders a page leaves: the Booking table and the page.
Page(bks, op, status, context) ==
    [bookings |-> bks, response |-> Response(op, status, {}, context)]

\* booking_confirmation: the booking of the reference, unless it belongs to
\* another user than the authenticated requester.
booking_confirmation(bks, user, reference) ==
    LET id == FindByReference(bks, reference)
    IN  IF id = 0
        THEN Page(bks, "confirmation", "not_found", << >>)
        ELSE IF bks[id].user # NoUser /\ is_authenticated(user) /\ bks[id].user # user
        THEN Page(bks, "confirmation", "not_owner", << >>)
        ELSE Page(bks, "confirmation", "ok", << id >>)

\* my_bookings that marks the requester's past bookings as Completed while
\* it lists them.
my_bookings_CompletesPast(bks, today, user) ==
    Page([i \in DOMAIN bks |->
             IF bks[i].user = user /\ bks[i].booking_date < today
             THEN [bks[i] EXCEPT !.status = "Completed"] ELSE bks[i]],
         "my_bookings", "ok", << >>)

\* my_bookings, behind login_required: the requester's bookings from today
\* on that are not Cancelled, and the requester's bookings before today.
my_bookings(bks, today, user) ==
    IF ~is_authenticated(user)
    THEN Page(bks, "my_bookings", "login_required", << >>)
    ELSE Page(bks, "my_bookings", "ok",
              [upcoming_bookings |->
                   {i \in DOMAIN bks : /\ bks[i].user = user
                                       /\ bks[i].booking_date >= today
                                       /\ bks[i].status # "Cancelled"},
               past_bookings |->
                   {i \in DOMAIN bks : /\ bks[i].user = user
                                       /\ bks[i].booking_date < today}])

\* The search terms given to staff_dashboard: none, or a reference number.
SearchQueries == {<< >>} \cup RefPool

\* staff_dashboard, behind staff_member_required: today's bookings, or the
\* bookings the search term matches, with their count and the party sizes
\* of the active ones.
staff_dashboard(bks, today, user, search_query) ==
    LET is_search == search_query # << >>
        found == IF is_search
                 THEN {i \in DOMAIN bks : bks[i].reference_number = search_query}
                 ELSE {i \in DOMAIN bks : bks[i].booking_date = today}
    IN  IF user \notin Staff
        THEN Page(bks, "staff_dashboard", "login_required", << >>)
        ELSE Page(bks, "staff_dashboard", "ok",
                  [bookings |-> found,
                   total_bookings |-> Cardinality(found),
                   total_guests |->
                       SumGuests(bks, {i \in found : bks[i].status \in ActiveStatuses}),
                   cancelled_count |->
                       Cardinality({i \in found : bks[i].status = "Cancelled"})])

\* The range parameter of booking_statistics, in days back from today.
DateRanges == {7, 30, 90}

\* booking_statistics, behind staff_member_required: the bookings dated
\* within the range, or has_data False when there are none.
booking_statistics(bks, today, user, date_range) ==
    LET start_date == today - date_range
        end_date == today
        found == {i \in DOMAIN bks : /\ bks[i].booking_date >= start_date
                                     /\ bks[i].booking_date <= end_date}
    IN  IF user \notin Staff
        THEN Page(bks, "statistics", "login_required", << >>)
        ELSE IF found = {}
        THEN Page(bks, "statistics", "no_data", << >>)
        ELSE Page(bks, "statistics", "ok",
                  [total_bookings |-> Cardinality(found),
                   total_guests |-> SumGuests(bks, found),
                   cancelled_count |->
                       Cardinality({i \in found : bks[i].status = "Cancelled"})])

\* A view that renders a page is served: the request and the page it left.
Rendered(request, r) ==
    /\ bookings' = r.bookings
    /\ served' = Served(request, bookings, r.response)
    /\ UNCHANGED << now, timeslots, tables, proc >>

\* A GET to booking_confirmation.
BookingConfirmation ==
    /\ served = NotServed
    /\ \E user \in Requesters, reference \in RefPool :
         Rendered(Request("confirmation", user, reference, NoForm),
                  booking_confirmation(bookings, user, reference))

\* A GET to my_bookings.
MyBookings ==
    /\ served = NotServed
    /\ \E user \in Requesters :
         Rendered(Request("my_bookings", user, << >>, NoForm),
                  my_bookings(bookings, now, user))

\* A GET to staff_dashboard.
StaffDashboard ==
    /\ served = NotServed
    /\ \E user \in Requesters, search_query \in SearchQueries :
         Rendered(Request("staff_dashboard", user, search_query, NoForm),
                  staff_dashboard(bookings, now, user, search_query))

\* A GET to booking_statistics.
BookingStatistics ==
    /\ served = NotServed
    /\ \E user \in Requesters, date_range \in DateRanges :
         Rendered(Request("statistics", user, << >>,
                          [NoForm EXCEPT !.number_of_guests = date_range]),
                  booking_statistics(bookings, now, user, date_range))

\* Bookings are made and cancelled while the pages and the availability are
\* read.
NextReads ==
    \/ Create
    \/ Cancel
    \/ CheckAvailability
    \/ GetTimeslots
    \/ GetAvailableTimeslots
    \/ BookingConfirmation
    \/ MyBookings
    \/ StaffDashboard
    \/ BookingStatistics
    \/ Respond
    \/ NextDay

SpecReads == Init /\ [][NextReads]_vars

\* ------------------------------------- generate_reference_number, stepwise
\* The test of the loop with its sense inverted: the code is returned when
\* a row carries it.
returns_InvertedTest(bks, ref) == RefExists(bks, ref)

\* The test at the end of the loop body of generate_reference_number:
\* `if not Booking.objects.filter(reference_number=ref).exists(): return ref`
returns(bks, ref) == ~RefExists(bks, ref)

\* A Booking instance calls generate_reference_number: `while True:`.
GenerateCall(w) ==
    /\ proc[w].pc = "idle"
    /\ proc' = Started(w, [Idle EXCEPT !.op = "generate", !.pc = "draw"])
    /\ UNCHANGED << now, timeslots, tables, bookings, served >>

\* One pass of the loop, first half: random.choices draws a code.
GenerateDraw(w) ==
    /\ proc[w].pc = "draw"
    /\ \E ref \in RefPool :
         proc' = [proc EXCEPT ![w].pc = "exists", ![w].ref = ref]
    /\ UNCHANGED << now, timeslots, tables, bookings, served >>

\* One pass of the loop, second half: the exists() query; the code is
\* returned, or the loop goes round.
GenerateExists(w) ==
    /\ proc[w].pc = "exists"
    /\ proc' = [proc EXCEPT ![w] =
           IF returns(bookings, proc[w].ref)
           THEN Finished(@, Response("generate", "ok", {}, None))
           ELSE [@ EXCEPT !.pc = "draw", !.ref = << >>]]
    /\ UNCHANGED << now, timeslots, tables, bookings, served >>

\* The bookings made while generate_reference_number runs: registered users
\* booking a full party for today on one of the first two time slots.
GenerateScope ==
    /\ served.request.user \in Users
    /\ served.request.form \in ConcForms

\* Calls of generate_reference_number run while bookings are made.
NextGenerate ==
    \/ Create /\ GenerateScope'
    \/ Respond
    \/ \E w \in Procs :
          \/ GenerateCall(w)
          \/ GenerateDraw(w)
          \/ GenerateExists(w)
          \/ Return(w)

\* A pass of the loop in which random.choices draws a code no row carries.
DrawsUnused(w) ==
    /\ GenerateDraw(w)
    /\ ~RefExists(bookings, proc'[w].ref)

\* The loop keeps running, and random.choices is fair: a code that can be
\* drawn again and again is drawn at some point.
SpecGenerate ==
    /\ Init
    /\ [][NextGenerate]_vars
    /\ \A w \in Procs :
          /\ WF_vars(GenerateExists(w))
          /\ SF_vars(DrawsUnused(w))

\* ------------------------------------------------------------- the claims
\* The effective capacity of a time slot as the design states it: the
\* configured max_capacity, or 40 if none is configured.
EffectiveCapacity(slots, slot) ==
    IF slots[slot].max_capacity = None
    THEN DEFAULT_CAPACITY
    ELSE slots[slot].max_capacity[1]

\* The party sizes of the active bookings of a (timeslot, date) pair.
ActiveGuests(bks, slot, d) == SumGuests(bks, ActiveIds(bks, slot, d))

\* The remaining capacity of a pair as the design states it.
Remaining(slots, bks, slot, d) ==
    EffectiveCapacity(slots, slot) - ActiveGuests(bks, slot, d)

\* A view of Spec has just served a request of kind op.
JustServed(op) == served.request.op = op

\* The preconditions of a create on the posted fields: the date is not
\* past, the party size is 1..8, the time slot is active, and a guest gives
\* name, email and phone.
ValidFields(slots, today, user, form) ==
    /\ form.booking_date >= today
    /\ form.number_of_guests >= MIN_GUESTS
    /\ form.number_of_guests <= MAX_GUESTS
    /\ slots[form.timeslot].is_active
    /\ (is_authenticated(user) \/ form.missing = {})

\* C1: in every state reached by serving create, edit and cancel requests
\* one after another, the active bookings of every (timeslot, date) pair sum
\* to at most the slot's effective capacity.
C1_ActiveWithinCapacity ==
    \A slot \in DOMAIN timeslots, d \in Dates :
        ActiveGuests(bookings, slot, d) <= EffectiveCapacity(timeslots, slot)

\* C2: however the capacity checks and the inserts of concurrent create
\* requests interleave, no (timeslot, date) pair is left with a negative
\* remaining capacity.
C2_ConcurrentCreatesWithinCapacity ==
    \A slot \in DOMAIN timeslots, d \in Dates :
        Remaining(timeslots, bookings, slot, d) >= 0

\* Worker w has answered a create request for n guests on (slot, d).
AnsweredCreate(w, slot, d, n) ==
    /\ proc[w].pc = "done"
    /\ proc[w].op = "create"
    /\ proc[w].form.timeslot = slot
    /\ proc[w].form.booking_date = d
    /\ proc[w].form.number_of_guests = n

Persisted(w) == proc[w].response.status = "ok"

\* C3: of two create requests for the same party size n against a pair that
\* had room for one of them but not for both (n <= remaining < 2n; 20 and 25
\* in the scenario), exactly one persists a booking and the other is
\* rejected with a capacity error that reports what the first left.
C3_ExactlyOneOfTwoCreatesPersists ==
    \A w1, w2 \in Procs, slot \in DOMAIN timeslots, d \in Dates, n \in GuestInputs :
        LET answered == AnsweredCreate(w1, slot, d, n) /\ AnsweredCreate(w2, slot, d, n)
            persisted == Cardinality({w \in {w1, w2} : Persisted(w)})
            remaining == Remaining(timeslots, bookings, slot, d) + n * persisted
        IN  (w1 # w2 /\ answered /\ n <= remaining /\ remaining < 2 * n)
            => \E won \in {w1, w2} :
                 \E lost \in {w1, w2} \ {won} :
                   /\ Persisted(won)
                   /\ proc[lost].response.status = "invalid"
                   /\ "capacity" \in proc[lost].response.errors
                   /\ proc[lost].response.available = Some(remaining - n)

\* C4: the capacity check and the write of a create or an edit are one
\* atomic step: no create or edit writes after another request wrote an
\* active booking to the same pair since its capacity check, where at least
\* one of the two requests is an edit.
C4_CheckAndWriteAtomic ==
    \A w \in Procs :
        (/\ proc[w].pc = "done"
         /\ proc[w].response.status = "ok"
         /\ proc[w].op \in {"create", "edit"})
        => ~(/\ proc[w].stale \in {"create", "edit"}
             /\ "edit" \in {proc[w].op, proc[w].stale})

\* C5: get_available_capacity returns the effective capacity minus the party
\* sizes of the Pending, Confirmed and Seated bookings of the slot and date,
\* in every state.
C5_AvailableIsEffectiveMinusActive ==
    \A slot \in DOMAIN timeslots, d \in Dates :
        get_available_capacity(timeslots, bookings, slot, d)
            = EffectiveCapacity(timeslots, slot) - ActiveGuests(bookings, slot, d)

\* The requester holds no booking yet for the posted time slot and date.
NoSameTriple(bks, user, form) ==
    \A i \in DOMAIN bks :
        ~(/\ bks[i].user = user
          /\ bks[i].timeslot = form.timeslot
          /\ bks[i].booking_date = form.booking_date)

\* C6: a create with valid fields for n guests, by a requester who holds no
\* booking for that time slot and date, against a pair with at least n
\* seats remaining persists exactly one new booking, with status Pending,
\* and the remaining capacity of the pair drops by exactly n.
C6_CreatePersistsPending ==
    LET rq == served.request
        slot == rq.form.timeslot
        d == rq.form.booking_date
        n == rq.form.number_of_guests
    IN  (/\ JustServed("create")
         /\ ValidFields(timeslots, now, rq.user, rq.form)
         /\ NoSameTriple(served.before, rq.user, rq.form)
         /\ Remaining(timeslots, served.before, slot, d) >= n)
        => /\ served.response.status = "ok"
           /\ Len(bookings) = Len(served.before) + 1
           /\ SubSeq(bookings, 1, Len(served.before)) = served.before
           /\ bookings[Len(bookings)].status = "Pending"
           /\ Remaining(timeslots, bookings, slot, d)
                = Remaining(timeslots, served.before, slot, d) - n

\* C7: a create whose fields are valid and whose party size exceeds the
\* remaining capacity of its pair is rejected with a capacity error that
\* reports that remaining capacity, and the bookings are unchanged.
C7_CreateOverCapacityRejected ==
    LET rq == served.request
        slot == rq.form.timeslot
        d == rq.form.booking_date
    IN  (/\ JustServed("create")
         /\ ValidFields(timeslots, now, rq.user, rq.form)
         /\ rq.form.number_of_guests > Remaining(timeslots, served.before, slot, d))
        => /\ served.response.status = "invalid"
           /\ "capacity" \in served.response.errors
           /\ served.response.available
                = Some(Remaining(timeslots, served.before, slot, d))
           /\ bookings = served.before

\* C8: a create is rejected with an error on the offending field, and the
\* bookings are unchanged, whenever the date is before today, the party size
\* is outside 1..8, the time slot is not active, or the requester is a guest
\* and one of name, email and phone is missing.
C8_InvalidCreateRejected ==
    LET rq == served.request
        errors == served.response.errors
    IN  JustServed("create") =>
          /\ rq.form.booking_date < now => "booking_date" \in errors
          /\ (rq.form.number_of_guests < MIN_GUESTS
              \/ rq.form.number_of_guests > MAX_GUESTS)
                => "number_of_guests" \in errors
          /\ ~timeslots[rq.form.timeslot].is_active => "timeslot" \in errors
          /\ ~is_authenticated(rq.user) => rq.form.missing \subseteq errors
          /\ ~ValidFields(timeslots, now, rq.user, rq.form)
                => /\ served.response.status = "invalid"
                   /\ bookings = served.before

\* A create for a date that has passed was rejected while bookings exist.
C8_Witness ==
    /\ JustServed("create")
    /\ served.request.form.booking_date < now
    /\ served.response.status = "invalid"
    /\ "booking_date" \in served.response.errors
    /\ bookings # << >>

\* C9: a create by a guest with name, email and phone, valid fields and
\* enough capacity persists a booking that has no registered user.
C9_GuestCreatePersists ==
    LET rq == served.request
    IN  (/\ JustServed("create")
         /\ ~is_authenticated(rq.user)
         /\ ValidFields(timeslots, now, rq.user, rq.form)
         /\ Remaining(timeslots, served.before, rq.form.timeslot,
                      rq.form.booking_date) >= rq.form.number_of_guests)
        => /\ served.response.status = "ok"
           /\ Len(bookings) = Len(served.before) + 1
           /\ bookings[Len(bookings)].user = NoUser

\* C10: no two rows of the Booking table carry the same reference_number,
\* however the requests interleave.
C10_ReferencesUnique ==
    \A i, j \in DOMAIN bookings :
        i # j => bookings[i].reference_number # bookings[j].reference_number

\* Two creates drew the same code before either inserted; one row carries
\* it and the other create, for another time slot, met the constraint.
C10_Witness ==
    \E w \in Procs :
        /\ proc[w].pc = "done"
        /\ proc[w].op = "create"
        /\ proc[w].response.status = "integrity_error"
        /\ \E i \in DOMAIN bookings :
              /\ bookings[i].reference_number = proc[w].ref
              /\ bookings[i].timeslot # proc[w].form.timeslot
        /\ \A i \in DOMAIN bookings : bookings[i].timeslot # proc[w].form.timeslot

\* A reference as the design states it: eight characters, each one of A-Z
\* and 0-9.
WellFormedReference(ref) ==
    /\ Len(ref) = 8
    /\ \A k \in 1..Len(ref) :
          ref[k] \in {"A", "B", "C", "D", "E", "F", "G", "H", "I", "J", "K", "L",
                      "M", "N", "O", "P", "Q", "R", "S", "T", "U", "V", "W", "X",
                      "Y", "Z", "0", "1", "2", "3", "4", "5", "6", "7", "8", "9"}

\* C11: the code generate_reference_number returns has exactly eight
\* characters of A-Z and 0-9 and is the reference of no booking stored at
\* the moment it returns.
C11_ReferenceFreshAndWellFormed ==
    [][\A w \in Procs :
          (proc[w].pc = "generate" /\ proc'[w].pc = "save")
          => /\ WellFormedReference(proc'[w].ref)
             /\ ~RefExists(bookings', proc'[w].ref)]_vars

\* generate_reference_number has returned a code while a booking is stored.
C11_Witness ==
    \E w \in Procs :
        /\ proc[w].pc = "save"
        /\ bookings # << >>
        /\ WellFormedReference(proc[w].ref)
        /\ ~RefExists(bookings, proc[w].ref)

\* C12: a create whose drawn reference was inserted by another create before
\* its own insert, and whose requester holds no booking for the posted time
\* slot and date, draws again and persists its booking under a reference no
\* other row carries, or is refused for lack of capacity; it never ends in
\* the storage conflict.
C12_ReferenceConflictRetried ==
    [][\A w \in Procs :
          (/\ proc[w].pc = "save"
           /\ proc'[w].pc = "done"
           /\ RefExists(bookings, proc[w].ref)
           /\ NoSameTriple(bookings, proc[w].user, proc[w].form))
          => \/ /\ proc'[w].response.status = "ok"
                /\ Len(bookings') = Len(bookings) + 1
                /\ ~RefExists(bookings, bookings'[Len(bookings')].reference_number)
             \/ /\ proc'[w].response.status = "invalid"
                /\ "capacity" \in proc'[w].response.errors
                /\ bookings' = bookings]_vars

\* C13: in every state reached by create, edit, cancel and staff status
\* changes, a booking carries a cancelled_at exactly when its status is
\* Cancelled.
C13_CancelledAtIffCancelled ==
    \A i \in DOMAIN bookings :
        (bookings[i].cancelled_at # None) <=> (bookings[i].status = "Cancelled")

\* The primary key, in the table as it was before the request, of the
\* booking the served request names; 0 if there is none.
Target == FindByReference(served.before, served.request.reference)

\* The served request names a booking that its requester owns.
ByOwner == Target # 0 /\ served.before[Target].user = served.request.user

\* C14: a cancel by the owner of a booking that is dated today or later and
\* is not Cancelled sets its status to Cancelled and its cancelled_at to the
\* current time in one write, and changes nothing else: not its reference,
\* owner, date, time slot, party size or table.
C14_CancelSetsStatusAndStamp ==
    (/\ JustServed("cancel")
     /\ ByOwner
     /\ served.before[Target].booking_date >= now
     /\ served.before[Target].status # "Cancelled")
    => /\ served.response.status = "ok"
       /\ bookings = [served.before EXCEPT ![Target].status = "Cancelled",
                                           ![Target].cancelled_at = Some(now)]

\* The owner cancelled a Confirmed booking that has a table assigned.
C14_Witness ==
    /\ JustServed("cancel")
    /\ ByOwner
    /\ served.response.status = "ok"
    /\ served.before[Target].status = "Confirmed"
    /\ served.before[Target].cancelled_at = None
    /\ bookings[Target].table # None
    /\ bookings[Target].status = "Cancelled"

C16_CancelPastRejected ==
    (/\ JustServed("cancel")
     /\ Target # 0
     /\ served.before[Target].booking_date < now)
    => /\ bookings = served.before
       /\ ByOwner => served.response.status = "past"

\* The owner tried to cancel a Pending booking dated yesterday.
C16_Witness ==
    /\ JustServed("cancel")
    /\ ByOwner
    /\ served.before[Target].booking_date < now
    /\ served.before[Target].status = "Pending"
    /\ served.response.status = "past"

\* C17: an edit or a cancel asked by a requester who is not staff and does
\* not own the booking is refused and changes no booking.
C17_NotOwnerRejected ==
    (/\ (JustServed("edit") \/ JustServed("cancel"))
     /\ Target # 0
     /\ served.request.user \notin Staff
     /\ served.before[Target].user # served.request.user)
    => /\ served.response.status \in {"not_owner", "login_required"}
       /\ bookings = served.before

\* A registered user who is not staff tried to edit the Pending booking of
\* another user, dated today, with a form that is valid.
C17_Witness ==
    /\ JustServed("edit")
    /\ Target # 0
    /\ served.request.user \in Users \ Staff
    /\ served.before[Target].user # served.request.user
    /\ served.before[Target].status = "Pending"
    /\ served.before[Target].booking_date >= now
    /\ served.response.status = "not_owner"

\* C18: a cancel asked by a staff member for a booking of another user that
\* is dated today or later and is not Cancelled is accepted: the booking
\* becomes Cancelled and its cancelled_at is stamped.
C18_StaffCancelsForOthers ==
    (/\ JustServed("cancel")
     /\ Target # 0
     /\ served.request.user \in Staff
     /\ served.before[Target].user # served.request.user
     /\ served.before[Target].booking_date >= now
     /\ served.before[Target].status # "Cancelled")
    => /\ served.response.status = "ok"
       /\ bookings[Target].status = "Cancelled"
       /\ bookings[Target].cancelled_at = Some(now)

\* The edges of the lifecycle of a booking: Pending -> Confirmed -> Seated
\* -> Completed, the three active statuses -> Cancelled, any -> No-Show.
LifecycleEdges ==
    {<< "Pending", "Confirmed" >>, << "Confirmed", "Seated" >>,
     << "Seated", "Completed" >>}
    \cup {<< s, "Cancelled" >> : s \in {"Pending", "Confirmed", "Seated"}}
    \cup {<< s, "No-Show" >> :
            s \in {"Pending", "Confirmed", "Seated", "Completed", "Cancelled"}}

\* C19: a status change made by staff follows an edge of the lifecycle: a
\* booking becomes Confirmed only from Pending, Seated only from Confirmed,
\* Completed only from Seated; any other change of status is refused.
C19_StaffChangeFollowsLifecycle ==
    JustServed("admin")
    => \A i \in DOMAIN served.before :
          \/ bookings[i].status = served.before[i].status
          \/ << served.before[i].status, bookings[i].status >> \in LifecycleEdges

\* C20: no request moves a Completed, Cancelled or No-Show booking to
\* Pending, Confirmed or Seated, and a cancel makes a booking Cancelled only
\* if it was Pending, Confirmed or Seated.
C20_TerminalStatusesStay ==
    served # NotServed
    => \A i \in DOMAIN served.before :
          /\ served.before[i].status \in {"Completed", "Cancelled", "No-Show"}
                => bookings[i].status \notin {"Pending", "Confirmed", "Seated"}
          /\ (/\ JustServed("cancel")
              /\ served.before[i].status # "Cancelled"
              /\ bookings[i].status = "Cancelled")
                => served.before[i].status \in {"Pending", "Confirmed", "Seated"}

\* The party sizes of the active bookings of a pair other than the booking
\* with primary key id.
OtherGuests(bks, id, slot, d) == SumGuests(bks, ActiveIds(bks, slot, d) \ {id})

\* The served request is an edit, by its owner, of a booking that is dated
\* today or later and is not Cancelled, with fields that are valid.
EditAdmitted ==
    /\ JustServed("edit")
    /\ ByOwner
    /\ served.before[Target].booking_date >= now
    /\ served.before[Target].status # "Cancelled"
    /\ ValidFields(timeslots, now, served.request.user, served.request.form)

\* C21: an edit whose party size is greater than the effective capacity of
\* the posted time slot less the active party sizes of the other bookings of
\* the posted pair is refused, and the bookings are unchanged.
C21_EditOverCapacityRejected ==
    LET form == served.request.form
    IN  (/\ EditAdmitted
         /\ form.number_of_guests >
              EffectiveCapacity(timeslots, form.timeslot)
              - OtherGuests(served.before, Target, form.timeslot, form.booking_date))
        => /\ served.response.status # "ok"
           /\ bookings = served.before

\* C22: an edit of an active booking that keeps its time slot and date is
\* accepted whenever its party size is at most the effective capacity less
\* the active party sizes of the other bookings of the pair: the booking's
\* own earlier party size is not counted against it.
C22_EditExcludesOwnContribution ==
    LET form == served.request.form
        old == served.before[Target]
    IN  (/\ EditAdmitted
         /\ old.status \in {"Pending", "Confirmed", "Seated"}
         /\ form.timeslot = old.timeslot
         /\ form.booking_date = old.booking_date
         /\ form.number_of_guests <=
              EffectiveCapacity(timeslots, form.timeslot)
              - OtherGuests(served.before, Target, form.timeslot, form.booking_date))
        => /\ served.response.status = "ok"
           /\ bookings = [served.before EXCEPT
                            ![Target].number_of_guests = form.number_of_guests]

\* C23: an edit of a booking that is dated before today, or is Cancelled,
\* is refused and changes no booking; its owner is told which of the two.
C23_EditPastOrCancelledRejected ==
    (/\ JustServed("edit")
     /\ Target # 0
     /\ \/ served.before[Target].booking_date < now
        \/ served.before[Target].status = "Cancelled")
    => /\ served.response.status # "ok"
       /\ bookings = served.before
       /\ ByOwner => served.response.status \in {"past", "cancelled"}

\* The owner tried to edit a Cancelled booking dated today or later.
C23_Witness ==
    /\ JustServed("edit")
    /\ ByOwner
    /\ served.before[Target].booking_date >= now
    /\ served.before[Target].status = "Cancelled"
    /\ served.response.status = "cancelled"

\* C24: the reference_number a booking got when it was created is the one it
\* has after every edit, cancel and save from the admin site.
C24_ReferenceImmutable ==
    served # NotServed
    => \A i \in DOMAIN served.before :
          bookings[i].reference_number = served.before[i].reference_number

\* An edit moved a booking that staff had confirmed to another time slot.
C24_Witness ==
    /\ JustServed("edit")
    /\ served.response.status = "ok"
    /\ served.before[Target].status = "Confirmed"
    /\ bookings[Target].timeslot # served.before[Target].timeslot
    /\ bookings[Target].reference_number = served.request.reference

\* The served request would give its requester a second booking for the
\* posted time slot and date.
SecondForTriple ==
    \/ /\ JustServed("create")
       /\ is_authenticated(served.request.user)
       /\ ~NoSameTriple(served.before, served.request.user, served.request.form)
    \/ /\ JustServed("edit")
       /\ ByOwner
       /\ \E i \in DOMAIN served.before :
             /\ i # Target
             /\ served.before[i].user = served.request.user
             /\ served.before[i].timeslot = served.request.form.timeslot
             /\ served.before[i].booking_date = served.request.form.booking_date

\* C25: no two bookings have the same user, booking_date and timeslot, and
\* a create or an edit that would make a second booking for a triple ends
\* in an error and changes no booking.
C25_TripleUnique ==
    /\ \A i, j \in DOMAIN bookings :
          i # j => \/ bookings[i].user # bookings[j].user
                   \/ bookings[i].booking_date # bookings[j].booking_date
                   \/ bookings[i].timeslot # bookings[j].timeslot
    /\ SecondForTriple => /\ served.response.status # "ok"
                          /\ bookings = served.before

\* An edit with valid fields and enough capacity would have moved a booking
\* onto the time slot and date of another booking of its owner.
C25_Witness ==
    /\ EditAdmitted
    /\ SecondForTriple
    /\ served.response.status = "integrity_error"

\* C26: deleting a Table deletes no booking: every booking that referenced
\* it is still stored, with no table and every other field as it was, and
\* the other bookings are unchanged.
C26_TableDeleteKeepsBookings ==
    JustServed("delete_table")
    => /\ served.response.status = "ok"
       /\ DOMAIN bookings = DOMAIN served.before
       /\ \A i \in DOMAIN served.before :
             bookings[i] =
                 IF /\ served.before[i].table # None
                    /\ served.before[i].table[1] \notin DOMAIN tables
                 THEN [served.before[i] EXCEPT !.table = None]
                 ELSE served.before[i]

\* The Table assigned to a Confirmed booking was deleted.
C26_Witness ==
    /\ JustServed("delete_table")
    /\ \E i \in DOMAIN served.before :
          /\ served.before[i].table # None
          /\ served.before[i].table[1] \notin DOMAIN tables
          /\ served.before[i].status = "Confirmed"
          /\ bookings[i].table = None

\* C27: every booking references a TimeSlot that exists, and deleting a
\* TimeSlot that a booking of any status references is refused: the
\* TimeSlot and the bookings stay as they were.
C27_TimeSlotDeleteProtected ==
    /\ \A i \in DOMAIN bookings : bookings[i].timeslot \in DOMAIN timeslots
    /\ (/\ JustServed("delete_timeslot")
        /\ \E i \in DOMAIN served.before :
              served.before[i].timeslot = served.request.form.timeslot)
       => /\ served.response.status = "protected"
          /\ bookings = served.before
          /\ served.request.form.timeslot \in DOMAIN timeslots
          /\ timeslots[served.request.form.timeslot]
                = TimeSlotFixture[served.request.form.timeslot]

\* The delete of a TimeSlot was refused for a Cancelled booking, after
\* another TimeSlot had been deleted.
C27_Witness ==
    /\ JustServed("delete_timeslot")
    /\ served.response.status = "protected"
    /\ \E i \in DOMAIN bookings :
          /\ bookings[i].timeslot = served.request.form.timeslot
          /\ bookings[i].status = "Cancelled"
    /\ DOMAIN timeslots # DOMAIN TimeSlotFixture

\* C28: a send function never lets an exception out and calls email.send()
\* at most once, whatever becomes of the email; it returns True only for a
\* delivered email; and a notification, sent or failed, changes no booking.
C28_NotificationFailureContained ==
    /\ \A i \in DOMAIN bookings, outcome \in MailOutcomes :
          \A r \in {send_booking_confirmation_email(bookings[i], outcome),
                    send_booking_update_email(bookings[i], "updated", outcome),
                    send_booking_update_email(bookings[i], "cancelled", outcome)} :
              /\ ~r.raised
              /\ r.sends <= 1
              /\ r.returns => outcome = "delivered"
    /\ JustServed("notify")
          => /\ served.response.status \in {"sent", "failed"}
             /\ bookings = served.before

\* A notification failed for a booking that stays stored as it was.
C28_Witness ==
    /\ JustServed("notify")
    /\ served.request.user \in HasEmail
    /\ served.response.status = "failed"
    /\ Target # 0
    /\ bookings[Target].status = "Pending"

\* C29: for a date that is today or later, an active time slot and a party
\* of at least one, check_availability answers available exactly when the
\* remaining capacity of the pair is at least the party size, and reports
\* that remaining capacity; for a past date, or a time slot that is not
\* active or does not exist, it answers not available.
C29_AvailabilityQuery ==
    LET form == served.request.form
        remaining == Remaining(timeslots, bookings, form.timeslot, form.booking_date)
    IN  (JustServed("availability") /\ form.number_of_guests >= 1)
        => IF form.booking_date >= now /\ ActiveTimeSlot(timeslots, form.timeslot)
           THEN /\ served.response.status = "available"
                      <=> remaining >= form.number_of_guests
                /\ served.response.status \in {"available", "unavailable"}
                /\ served.response.available = Some(remaining)
           ELSE served.response.status = "unavailable"

\* C30: in every state, for every active time slot and every date from
\* today on, the remaining capacity is the same number on every path that
\* computes it, namely the slot's max_capacity (40 if it has none) less the
\* active party sizes: the check of a create, the re-validation of an edit
\* against the same bookings, get_timeslots and get_available_timeslots.
C30_SameCapacityOnEveryPath ==
    \A slot \in DOMAIN timeslots, d \in Dates :
        (timeslots[slot].is_active /\ d >= now)
        => LET remaining == Remaining(timeslots, bookings, slot, d)
               listed == get_timeslots(timeslots, bookings, d)
               offered == get_available_timeslots(timeslots, bookings, now, d, 1)
           IN  /\ get_available_capacity(timeslots, bookings, slot, d) = remaining
               /\ total_capacity(tables) - ActiveGuests(bookings, slot, d) = remaining
               /\ listed.available[slot].available_capacity = remaining
               /\ offered.status = "ok"
               /\ IF slot \in DOMAIN offered.available
                  THEN offered.available[slot] = remaining
                  ELSE remaining < 1

\* The operations of the views that only read.
ReadOps ==
    {"availability", "timeslots", "available_timeslots", "confirmation",
     "my_bookings", "staff_dashboard", "statistics"}

\* C31: every step that serves a read-only operation (availability check,
\* time slot listings, booking confirmation, my-bookings, staff dashboard,
\* statistics) leaves the Table, TimeSlot and Booking tables as they were,
\* also when no booking matches the query.
C31_ReadsLeaveTablesUnchanged ==
    [][(served = NotServed /\ served'.request.op \in ReadOps)
           => UNCHANGED << tables, timeslots, bookings >>]_vars

\* A statistics page was served for a range that holds no booking while the
\* Booking table is not empty, and the table is as it was.
C31_Witness ==
    /\ JustServed("statistics")
    /\ served.response.status = "no_data"
    /\ bookings # << >>
    /\ bookings = served.before

\* C32: in every state, for every active time slot and date,
\* get_available_capacity is the effective capacity less the active party
\* sizes also when that is negative (the active party sizes exceed the
\* effective capacity), and get_timeslots marks the slot as available
\* exactly when the value it reports is greater than 0.
C32_CapacityNotClamped ==
    \A slot \in DOMAIN timeslots, d \in Dates :
        timeslots[slot].is_active
        => LET value == get_available_capacity(timeslots, bookings, slot, d)
               listed == get_timeslots(timeslots, bookings, d).available[slot]
           IN  /\ ActiveGuests(bookings, slot, d) > EffectiveCapacity(timeslots, slot)
                    => /\ value = Remaining(timeslots, bookings, slot, d)
                       /\ value < 0
               /\ listed.available_capacity = value
               /\ listed.is_available <=> value > 0

\* C33: in every state, the capacity get_available_capacity counts from is
\* the configured max_capacity of the time slot whenever one is configured
\* and 40 only when none is; no booking is stored on a time slot whose
\* max_capacity is 0.
C33_ZeroCapacityIsConfigured ==
    /\ \A slot \in DOMAIN timeslots, d \in Dates :
           get_available_capacity(timeslots, bookings, slot, d)
               + ActiveGuests(bookings, slot, d)
             = EffectiveCapacity(timeslots, slot)
    /\ \A i \in DOMAIN bookings :
           timeslots[bookings[i].timeslot].max_capacity # Some(0)

\* The (timeslot, date) pairs.
Pairs == (DOMAIN timeslots) \X Dates

\* What get_available_capacity returns for a pair on the Booking table bks.
Available(bks, pair) == get_available_capacity(timeslots, bks, pair[1], pair[2])

\* C34: a cancel that succeeds on an active booking of n guests raises what
\* get_available_capacity returns for the booking's (timeslot, date) pair by
\* exactly n and leaves it as it was for every other pair; a create that
\* succeeds leaves it as it was for every pair but the posted one, and an
\* edit that succeeds for every pair but the booking's old and posted ones.
C34_CapacityFrame ==
    LET form == served.request.form
        posted == << form.timeslot, form.booking_date >>
        old == served.before[Target]
        held == << old.timeslot, old.booking_date >>
        SameBut(pairs) ==
            \A p \in Pairs \ pairs : Available(bookings, p) = Available(served.before, p)
    IN  served.response.status = "ok"
        => /\ (JustServed("cancel") /\ old.status \in ActiveStatuses)
                => /\ Available(bookings, held)
                        = Available(served.before, held) + old.number_of_guests
                   /\ SameBut({held})
           /\ JustServed("create") => SameBut({posted})
           /\ JustServed("edit") => SameBut({held, posted})

\* An active booking was cancelled while a pair other than its own holds an
\* active booking.
C34_Witness ==
    /\ JustServed("cancel")
    /\ served.response.status = "ok"
    /\ served.before[Target].status \in ActiveStatuses
    /\ \E i \in DOMAIN bookings :
           /\ i # Target
           /\ bookings[i].status \in ActiveStatuses
           /\ << bookings[i].timeslot, bookings[i].booking_date >>
                # << served.before[Target].timeslot, served.before[Target].booking_date >>

\* C35: while cancel requests are served side by side, once a booking is
\* Cancelled no step changes its cancelled_at, and no cancel request for it
\* ends with a report of success.
C35_CancelStampedOnce ==
    [][\A i \in DOMAIN bookings :
          bookings[i].status = "Cancelled"
          => /\ bookings'[i].cancelled_at = bookings[i].cancelled_at
             /\ \A w \in Procs :
                  ~(/\ proc[w].pc # "done"
                    /\ proc'[w].pc = "done"
                    /\ proc'[w].op = "cancel"
                    /\ proc'[w].id = i
                    /\ proc'[w].response.status = "ok")]_vars

\* C36: while an edit and a cancel of one booking are served side by side,
\* a booking that is Cancelled stays Cancelled with cancelled_at set
\* whatever an edit writes, and the write of a cancel changes nothing of
\* the stored row but status and cancelled_at.
C36_EditAndCancelOverlap ==
    [][\A i \in DOMAIN bookings :
          /\ bookings[i].status = "Cancelled"
               => /\ bookings'[i].status = "Cancelled"
                  /\ bookings'[i].cancelled_at # None
          /\ \A w \in Procs :
               (proc[w].pc = "ksave" /\ proc'[w].pc = "done" /\ proc[w].id = i)
               => bookings'[i] = [bookings[i] EXCEPT
                                     !.status = bookings'[i].status,
                                     !.cancelled_at = bookings'[i].cancelled_at]]_vars

CreateOverCancelled ==
    /\ JustServed("create")
    /\ \E i \in DOMAIN served.before :
           /\ served.before[i].status = "Cancelled"
           /\ served.before[i].user = served.request.user
           /\ served.before[i].booking_date = served.request.form.booking_date
           /\ served.before[i].timeslot = served.request.form.timeslot

\* C38: a create by a user who holds a Cancelled booking for the posted date
\* and time slot stores no booking, and no state holds two bookings of one
\* user for one date and time slot.
C38_CancelledKeepsTriple ==
    /\ CreateOverCancelled
         => /\ served.response.status # "ok"
            /\ bookings = served.before
    /\ \A i, j \in DOMAIN bookings :
           (/\ bookings[i].user = bookings[j].user
            /\ bookings[i].booking_date = bookings[j].booking_date
            /\ bookings[i].timeslot = bookings[j].timeslot) => i = j

\* Such a create was served with fields the form accepts and room for the
\* party, the Cancelled booking not counting toward the capacity.
C38_Witness ==
    /\ CreateOverCancelled
    /\ served.response.status = "integrity_error"
    /\ ActiveGuests(served.before, served.request.form.timeslot,
                    served.request.form.booking_date) = 0

\* A call of generate_reference_number by worker w is in its loop.
InLoop(w) == proc[w].pc \in {"draw", "exists"}

\* Every code random.choices can draw is carried by a row.
AllCodesUsed == \A ref \in RefPool : RefExists(bookings, ref)

\* C39: a call of generate_reference_number that is in its loop returns or
\* every code is in use (eventually, the draws being fair); a pass of the
\* loop returns exactly when the drawn code is carried by no row and goes
\* round otherwise, whether or not it is the first pass.
C39_GenerateTerminates ==
    /\ \A w \in Procs :
          InLoop(w) ~> (proc[w].pc = "done" \/ AllCodesUsed)
    /\ [][\A w \in Procs :
             (proc[w].pc = "exists" /\ proc'[w] # proc[w])
             => /\ proc'[w].pc = "done"
                    <=> generate_reference_number(bookings, proc[w].ref)
                /\ proc'[w].pc \in {"done", "draw"}]_vars

\* A call returned a code after another booking took a code: the code
\* returned is not the one taken.
C39_Witness ==
    \E w \in Procs :
        /\ proc[w].op = "generate"
        /\ proc[w].pc = "done"
        /\ bookings # << >>
        /\ ~RefExists(bookings, proc[w].ref)
        /\ ~AllCodesUsed
====
